---- MODULE Spec2Model ----
(***************************************************************************)
(* Model of analysis.py: the Odd-Even policy analysis of Delhi air-quality *)
(* data.  The program is a linear pipeline                                 *)
(*   load_and_prepare_real_data -> perform_statistical_analysis            *)
(*                              -> create_visualizations                   *)
(* whose core is get_policy_status, the date-window labelling.             *)
(*                                                                         *)
(* Dates (pandas Timestamps at midnight) are day numbers counted from      *)
(* 1970-01-01.  A cell of the data frame is <<>> when it is missing (NaN)  *)
(* and <<v>> when it holds the value v.  A p-value is counted in units of  *)
(* 1/10000.                                                                *)
(***************************************************************************)
EXTENDS Integers, Sequences, FiniteSets

VARIABLES
    pc,             \* position of the run
    fileExists,     \* whether the CSV file is there (line 19)
    chainedInplace, \* whether df[col].ffill(inplace=True) reaches the frame
    raw,            \* rows of the CSV file, in file order
    df,             \* the data frame load_and_prepare_real_data returns
    phase,          \* the phase argument of the analysis and the charts
    p_value,        \* <<>> until mannwhitneyu is called, then <<p>>
    verdict,        \* the result line perform_statistical_analysis prints
    date,           \* argument of get_policy_status (labelling run)
    status          \* its result (labelling run)

vars == <<pc, fileExists, chainedInplace, raw, df, phase, p_value, verdict,
          date, status>>

----------------------------------------------------------------------------
(* Bounds of the model. *)

\* first and last day number given to get_policy_status: 2014-12-01 .. 2019-12-31
FirstDay == 16405
LastDay == 18261
\* most rows in the CSV file
MaxRows == 3

----------------------------------------------------------------------------
(* pandas Timestamp arithmetic on calendar dates. *)

IsLeap(y) == (y % 4 = 0 /\ y % 100 # 0) \/ y % 400 = 0

DaysInMonth(y, m) ==
    IF m = 2 THEN (IF IsLeap(y) THEN 29 ELSE 28)
    ELSE IF m \in {4, 6, 9, 11} THEN 30 ELSE 31

\* pd.to_datetime('y-m-d'): the day number of a calendar date
to_datetime(y, m, d) ==
    LET yy  == IF m <= 2 THEN y - 1 ELSE y
        era == yy \div 400
        yoe == yy - era * 400
        mp  == IF m > 2 THEN m - 3 ELSE m + 9
        doy == (153 * mp + 2) \div 5 + d - 1
        doe == yoe * 365 + yoe \div 4 - yoe \div 100 + doy
    IN  era * 146097 + doe - 719468

\* the calendar date <<y, m, d>> of a day number
Civil(n) ==
    LET z   == n + 719468
        era == z \div 146097
        doe == z - era * 146097
        yoe == (doe - doe \div 1460 + doe \div 36524 - doe \div 146096) \div 365
        doy == doe - (365 * yoe + yoe \div 4 - yoe \div 100)
        mp  == (5 * doy + 2) \div 153
        d   == doy - (153 * mp + 2) \div 5 + 1
        m   == IF mp < 10 THEN mp + 3 ELSE mp - 9
        y   == yoe + era * 400 + (IF m <= 2 THEN 1 ELSE 0)
    IN  <<y, m, d>>

\* a 365-day shift per year: what a Timedelta would do
MinusDays365(n, k) == n - 365 * k

\* ts - pd.DateOffset(years=k): same month and day k years earlier, the day
\* clamped to the length of the month (29 Feb -> 28 Feb)
MinusYears(n, k) ==
    LET c  == Civil(n)
        y  == c[1] - k
        dm == DaysInMonth(y, c[2])
    IN  to_datetime(y, c[2], IF c[3] > dm THEN dm ELSE c[3])

----------------------------------------------------------------------------
(* The policy phases and the labelling, lines 46-67. *)

\* Phase 2 mistyped so that it starts inside Phase 1
policy_periods_overlap ==
    << [name |-> "Phase 1", start |-> <<2016, 1, 1>>,   end |-> <<2016, 1, 15>>],
       [name |-> "Phase 2", start |-> <<2016, 1, 15>>,  end |-> <<2016, 4, 30>>],
       [name |-> "Phase 3", start |-> <<2017, 11, 13>>, end |-> <<2017, 11, 17>>],
       [name |-> "Phase 4", start |-> <<2019, 11, 4>>,  end |-> <<2019, 11, 15>>] >>

\* the dict policy_periods, in insertion order
policy_periods ==
    << [name |-> "Phase 1", start |-> <<2016, 1, 1>>,   end |-> <<2016, 1, 15>>],
       [name |-> "Phase 2", start |-> <<2016, 4, 15>>,  end |-> <<2016, 4, 30>>],
       [name |-> "Phase 3", start |-> <<2017, 11, 13>>, end |-> <<2017, 11, 17>>],
       [name |-> "Phase 4", start |-> <<2019, 11, 4>>,  end |-> <<2019, 11, 15>>] >>

\* start = pd.to_datetime(dates['start']), end likewise
PhaseStart(p) == to_datetime(p.start[1], p.start[2], p.start[3])
PhaseEnd(p) == to_datetime(p.end[1], p.end[2], p.end[3])

\* f'{kind} {phase}'
Label(kind, name) == kind \o " " \o name

\* the last day of the policy left out
InDuringOpenEnd(d, start, end) == start <= d /\ d < end

\* start <= date <= end
InDuring(d, start, end) == start <= d /\ d <= end

\* the extra day forgotten: the window starts at start - delta
InBeforeShort(d, start, end) == (start - (end - start)) <= d /\ d < start

\* (start - delta - pd.Timedelta(days=1)) <= date < start, delta = end - start
InBefore(d, start, end) == (start - (end - start) - 1) <= d /\ d < start

\* the previous year taken as 365 days
InControl365(d, start, end) ==
    MinusDays365(start, 1) <= d /\ d <= MinusDays365(end, 1)

\* (start - DateOffset(years=1)) <= date <= (end - DateOffset(years=1))
InControl(d, start, end) ==
    MinusYears(start, 1) <= d /\ d <= MinusYears(end, 1)

\* the loop of get_policy_status from the i-th phase on: the first test that
\* matches returns, the phases in declared order
RECURSIVE StatusFrom(_, _, _)
StatusFrom(d, periods, i) ==
    IF i > Len(periods) THEN "Normal Day"
    ELSE LET p     == periods[i]
             start == PhaseStart(p)
             end   == PhaseEnd(p)
         IN  IF InDuring(d, start, end) THEN Label("During", p.name)
             ELSE IF InBefore(d, start, end) THEN Label("Before", p.name)
             ELSE IF InControl(d, start, end) THEN Label("Control", p.name)
             ELSE StatusFrom(d, periods, i + 1)

\* the loop started one phase late
get_policy_status_skip(d) == StatusFrom(d, policy_periods, 2)

get_policy_status(d) == StatusFrom(d, policy_periods, 1)

----------------------------------------------------------------------------
(* load_and_prepare_real_data, lines 12-72. *)

\* df[df['City'] == 'Delhi'], rows kept in file order
FilterDelhi(rows) == SelectSeq(rows, LAMBDA r : r.City = "Delhi")

\* pd.to_datetime on the Date column, set_index('Date') and the renaming of
\* PM2.5 and NO2: the rows stay in the order they have
SetDateIndex(rows) ==
    [i \in DOMAIN rows |->
        [Date |-> to_datetime(rows[i].Date[1], rows[i].Date[2], rows[i].Date[3]),
         City |-> rows[i].City,
         pm25 |-> rows[i].pm25,
         no2  |-> rows[i].no2,
         AQI  |-> rows[i].AQI]]

\* Series.ffill over the first i cells: a missing cell takes the value of the
\* cell above it, by position
RECURSIVE FillTo(_, _)
FillTo(cells, i) ==
    IF i = 0 THEN <<>>
    ELSE LET above == FillTo(cells, i - 1)
         IN  Append(above,
                    IF cells[i] # <<>> \/ i = 1 THEN cells[i] ELSE above[i - 1])

ffill(cells) == FillTo(cells, Len(cells))

\* df_delhi['pm25'].ffill(inplace=True); df_delhi['no2'].ffill(inplace=True)
FillTracked(rows) ==
    LET pm == ffill([i \in DOMAIN rows |-> rows[i].pm25])
        no == ffill([i \in DOMAIN rows |-> rows[i].no2])
    IN  [i \in DOMAIN rows |-> [rows[i] EXCEPT !.pm25 = pm[i], !.no2 = no[i]]]

\* only the tracked columns looked at
dropna_tracked(rows) ==
    SelectSeq(rows, LAMBDA r : r.pm25 # <<>> /\ r.no2 # <<>>)

\* df_delhi.dropna(inplace=True): a row with a missing cell in any column goes
dropna(rows) ==
    SelectSeq(rows, LAMBDA r : r.pm25 # <<>> /\ r.no2 # <<>> /\ r.AQI # <<>>)

\* df_delhi['policy_status'] = index.to_series().apply(get_policy_status)
AddPolicyStatus(rows) ==
    [i \in DOMAIN rows |->
        [Date |-> rows[i].Date, City |-> rows[i].City, pm25 |-> rows[i].pm25,
         no2 |-> rows[i].no2, AQI |-> rows[i].AQI,
         policy_status |-> get_policy_status(rows[i].Date)]]

\* the frame after the two fills: they reach it only when an in-place method
\* on a selected column writes through to its frame
Filled(rows, inplace) ==
    IF inplace THEN FillTracked(SetDateIndex(FilterDelhi(rows)))
    ELSE SetDateIndex(FilterDelhi(rows))

Prepare(rows, inplace) == AddPolicyStatus(dropna(Filled(rows, inplace)))

load_and_prepare_real_data ==
    /\ pc = "start"
    /\ \/ /\ ~fileExists                   \* FileNotFoundError: sys.exit()
          /\ pc' = "exit"
          /\ df' = df
       \/ /\ fileExists
          /\ df' = Prepare(raw, chainedInplace)
          /\ pc' = "loaded"
    /\ UNCHANGED <<fileExists, chainedInplace, raw, phase, p_value, verdict,
                   date, status>>

----------------------------------------------------------------------------
(* perform_statistical_analysis, lines 75-101. *)

\* p < 0.05, in units of 1/10000
Alpha == 500

\* the p-values mannwhitneyu may return
PValues == {0, 499, 500, 501, 10000}

\* df[df['policy_status'] == f'{kind} {phase}']['pm25']
Sample(frame, kind, ph) ==
    LET sel == SelectSeq(frame, LAMBDA r : r.policy_status = Label(kind, ph))
    IN  [i \in DOMAIN sel |-> sel[i].pm25[1]]

\* the test skipped only when both samples are empty
BothEmpty(during, control) == during = <<>> /\ control = <<>>

\* during_data.empty or control_data.empty
NotEnoughData(during, control) == during = <<>> \/ control = <<>>

\* the threshold itself counted as significant
AtMostAlpha(p) == p <= Alpha

\* p_value < 0.05
IsSignificant(p) == p < Alpha

perform_statistical_analysis ==
    /\ pc = "loaded"
    /\ LET during_data  == Sample(df, "During", phase)
           control_data == Sample(df, "Control", phase)
       IN  \/ /\ NotEnoughData(during_data, control_data)
              /\ verdict' = "Not enough data"
              /\ p_value' = p_value
           \/ /\ ~NotEnoughData(during_data, control_data)
              /\ \E p \in PValues :
                    /\ p_value' = <<p>>
                    /\ verdict' = IF IsSignificant(p) THEN "significant"
                                  ELSE "NOT significant"
    /\ pc' = "analysed"
    /\ UNCHANGED <<fileExists, chainedInplace, raw, df, phase, date, status>>

----------------------------------------------------------------------------
(* create_visualizations, lines 104-169. *)

\* comp_df['period']: 'During' in x
Period(policy_status) ==
    IF \E q \in 1..Len(policy_periods) :
           policy_status = Label("During", policy_periods[q].name)
    THEN "During Policy" ELSE "Control (Prior Year)"

\* the periods of comp_df that have a row in mean_data
MeanPeriods(frame, ph) ==
    {Period(frame[i].policy_status) :
        i \in {k \in DOMAIN frame :
                 frame[k].policy_status \in {Label("During", ph),
                                             Label("Control", ph)}}}

create_visualizations ==
    /\ pc = "analysed"
    /\ \/ /\ {"Control (Prior Year)", "During Policy"} \subseteq MeanPeriods(df, phase)
          /\ pc' = "done"
       \/ /\ ~({"Control (Prior Year)", "During Policy"} \subseteq MeanPeriods(df, phase))
          /\ pc' = "crashed"               \* .iloc[0] of an empty selection
    /\ UNCHANGED <<fileExists, chainedInplace, raw, df, phase, p_value,
                   verdict, date, status>>

----------------------------------------------------------------------------
(* The run of the program, lines 172-180, and the preparation on its own. *)

CsvRows(cities, dates, pms, nos, aqis) ==
    [City : cities, Date : dates, pm25 : pms, no2 : nos, AQI : aqis]

\* a control day, a policy day and a normal day of Phase 1
CsvDates == {<<2015, 1, 5>>, <<2015, 6, 1>>, <<2016, 1, 5>>}

SeqsUpTo(S, n) == UNION {[1..k -> S] : k \in 0..n}

NoLabelling == date = FirstDay /\ status = "none"

\* the whole run; the untracked columns are complete
Init ==
    /\ pc = "start"
    /\ fileExists \in BOOLEAN
    /\ chainedInplace \in BOOLEAN
    /\ raw \in SeqsUpTo(CsvRows({"Delhi", "Mumbai"}, CsvDates,
                                {<<>>, <<10>>, <<20>>}, {<<5>>}, {<<1>>}),
                        IF fileExists THEN MaxRows ELSE 0)
    /\ df = <<>>
    /\ phase \in {"Phase 1", "Phase 9"}
    /\ p_value = <<>>
    /\ verdict = "none"
    /\ NoLabelling

Next ==
    \/ load_and_prepare_real_data
    \/ perform_statistical_analysis
    \/ create_visualizations

Spec == Init /\ [][Next]_vars

\* the preparation alone, over files with gaps in every column
InitPrep ==
    /\ pc = "start"
    /\ fileExists \in BOOLEAN
    /\ chainedInplace \in BOOLEAN
    /\ raw \in SeqsUpTo(CsvRows({"Delhi", "Mumbai"}, CsvDates,
                                {<<>>, <<10>>, <<20>>}, {<<>>, <<5>>},
                                {<<>>, <<1>>}),
                        IF fileExists THEN MaxRows ELSE 0)
    /\ df = <<>>
    /\ phase = "Phase 1"
    /\ p_value = <<>>
    /\ verdict = "none"
    /\ NoLabelling

NextPrep == load_and_prepare_real_data

SpecPrep == InitPrep /\ [][NextPrep]_vars


----------------------------------------------------------------------------
(* Labelling run: get_policy_status applied to one date. *)

Idle ==
    /\ fileExists = TRUE
    /\ chainedInplace = TRUE
    /\ raw = <<>>
    /\ df = <<>>
    /\ phase = "Phase 1"
    /\ p_value = <<>>
    /\ verdict = "none"

InitStatus ==
    /\ pc = "apply"
    /\ date \in FirstDay..LastDay
    /\ status = "none"
    /\ Idle

Classify ==
    /\ pc = "apply"
    /\ status' = get_policy_status(date)
    /\ pc' = "labelled"
    /\ UNCHANGED <<fileExists, chainedInplace, raw, df, phase, p_value,
                   verdict, date>>

NextStatus == Classify

SpecStatus == InitStatus /\ [][NextStatus]_vars

----------------------------------------------------------------------------
(* The windows as the specification states them, for the labelling claims. *)

StatedPhases ==
    << [during |-> "During Phase 1", before |-> "Before Phase 1",
        control |-> "Control Phase 1",
        s  |-> to_datetime(2016, 1, 1),   e  |-> to_datetime(2016, 1, 15),
        cs |-> to_datetime(2015, 1, 1),   ce |-> to_datetime(2015, 1, 15)],
       [during |-> "During Phase 2", before |-> "Before Phase 2",
        control |-> "Control Phase 2",
        s  |-> to_datetime(2016, 4, 15),  e  |-> to_datetime(2016, 4, 30),
        cs |-> to_datetime(2015, 4, 15),  ce |-> to_datetime(2015, 4, 30)],
       [during |-> "During Phase 3", before |-> "Before Phase 3",
        control |-> "Control Phase 3",
        s  |-> to_datetime(2017, 11, 13), e  |-> to_datetime(2017, 11, 17),
        cs |-> to_datetime(2016, 11, 13), ce |-> to_datetime(2016, 11, 17)],
       [during |-> "During Phase 4", before |-> "Before Phase 4",
        control |-> "Control Phase 4",
        s  |-> to_datetime(2019, 11, 4),  e  |-> to_datetime(2019, 11, 15),
        cs |-> to_datetime(2018, 11, 4),  ce |-> to_datetime(2018, 11, 15)] >>

StatedDuring(q) == q.s .. q.e
StatedBefore(q) == (q.s - (q.e - q.s) - 1) .. (q.s - 1)
StatedControl(q) == q.cs .. q.ce

\* how many days of the checked range get the label l
DaysLabelled(l) ==
    Cardinality({d \in FirstDay..LastDay : get_policy_status(d) = l})

\* C1: every date from start to end of a phase, both ends included, is
\* labelled "During {phase}" of that phase, whatever the other phases'
\* windows are.
C1_DuringWindow ==
    pc = "labelled" =>
        \A i \in 1..Len(StatedPhases) :
            date \in StatedDuring(StatedPhases[i])
                => status = StatedPhases[i].during

C1_Witness ==
    pc = "labelled" /\ date = to_datetime(2019, 11, 15)
                    /\ status = "During Phase 4"

\* C2: the dates labelled "Before {phase}" are exactly start - D - 1 day up
\* to the day before start (start itself is "During"), and there are as many
\* of them, D + 1, as dates labelled "During {phase}".
C2_BeforeWindow ==
    pc = "labelled" =>
        \A i \in 1..Len(StatedPhases) :
            LET q == StatedPhases[i] IN
            /\ status = q.before <=> date \in StatedBefore(q)
            /\ date = q.s =>
                  /\ status = q.during
                  /\ DaysLabelled(q.before) = (q.e - q.s) + 1
                  /\ DaysLabelled(q.before) = DaysLabelled(q.during)

C2_Witness ==
    pc = "labelled" /\ date = to_datetime(2015, 12, 17)
                    /\ status = "Before Phase 1"

\* C3: the dates labelled "Control {phase}" are exactly the same month/day
\* range one calendar year earlier (2015-04-15..2015-04-30 for Phase 2,
\* across 29 Feb 2016), with as many days as the During window.
C3_ControlWindow ==
    pc = "labelled" =>
        \A i \in 1..Len(StatedPhases) :
            LET q == StatedPhases[i] IN
            /\ status = q.control <=> date \in StatedControl(q)
            /\ date = q.ce =>
                  DaysLabelled(q.control) = DaysLabelled(q.during)

C3_Witness ==
    pc = "labelled" /\ date = to_datetime(2015, 4, 30)
                    /\ status = "Control Phase 2"

StatedLabels ==
    {"Normal Day"} \cup
    UNION {{StatedPhases[i].during, StatedPhases[i].before,
            StatedPhases[i].control} : i \in 1..Len(StatedPhases)}

InSomeStatedWindow(d) ==
    \E i \in 1..Len(StatedPhases) :
        d \in StatedDuring(StatedPhases[i]) \cup StatedBefore(StatedPhases[i])
              \cup StatedControl(StatedPhases[i])

\* C4: every date gets one of the 13 labels, and "Normal Day" exactly when
\* it lies in no During, Before or Control window of any phase.
C4_TotalLabel ==
    pc = "labelled" =>
        /\ status \in StatedLabels
        /\ Cardinality(StatedLabels) = 13
        /\ status = "Normal Day" <=> ~InSomeStatedWindow(date)

C4_Witness ==
    pc = "labelled" /\ date = to_datetime(2016, 2, 29)
                    /\ status = "Normal Day"

\* the windows of the configured phases that hold d, as the code tests them
WindowsHolding(d) ==
    {w \in (1..Len(policy_periods)) \X {"During", "Before", "Control"} :
        LET start == PhaseStart(policy_periods[w[1]])
            end   == PhaseEnd(policy_periods[w[1]])
        IN  \/ w[2] = "During"  /\ InDuring(d, start, end)
            \/ w[2] = "Before"  /\ InBefore(d, start, end)
            \/ w[2] = "Control" /\ InControl(d, start, end)}

RECURSIVE Reverse(_)
Reverse(s) == IF s = <<>> THEN <<>> ELSE Append(Reverse(Tail(s)), Head(s))

\* C5: no date lies in two of the twelve windows, so the label is the one
\* window's label whatever the order of evaluation (here: the phases taken
\* in reverse).
C5_DisjointWindows ==
    pc = "labelled" =>
        /\ Cardinality(WindowsHolding(date)) <= 1
        /\ \A w \in WindowsHolding(date) :
              status = Label(w[2], policy_periods[w[1]].name)
        /\ StatusFrom(date, Reverse(policy_periods), 1) = status

C5_Witness ==
    pc = "labelled" /\ status = "Control Phase 4"
                    /\ Cardinality(WindowsHolding(date)) = 1

----------------------------------------------------------------------------
(* Claims about the preparation, the analysis and the run. *)

SortedByDate(frame) ==
    \A i, j \in DOMAIN frame : i < j => frame[i].Date <= frame[j].Date

\* the observed values of a column on the latest date strictly before row i's
EarlierObserved(rows, i, col) ==
    LET seen == {j \in DOMAIN rows :
                    rows[j].Date < rows[i].Date /\ rows[j][col] # <<>>}
        last == {j \in seen : \A k \in seen : rows[k].Date <= rows[j].Date}
    IN  {rows[j][col] : j \in last}

\* row i's cell of a column is what a fill in date order leaves there
FilledInDateOrder(before, after, i, col) ==
    IF before[i][col] # <<>> THEN after[i][col] = before[i][col]
    ELSE IF EarlierObserved(before, i, col) = {} THEN after[i][col] = <<>>
    ELSE after[i][col] \in EarlierObserved(before, i, col)

OneRowPerDate(rows) ==
    \A i, j \in DOMAIN rows : i # j => rows[i].Date # rows[j].Date

\* C6: whatever the order of the rows in the file (one row per date), the
\* prepared series is sorted ascending by date, and a missing pm25 or no2
\* value is filled with the latest value of that column observed on a
\* strictly earlier date.
C6_SortedChronologicalFill ==
    (pc = "loaded" /\ chainedInplace
                   /\ OneRowPerDate(SetDateIndex(FilterDelhi(raw)))) =>
        LET before == SetDateIndex(FilterDelhi(raw))
            after  == Filled(raw, chainedInplace)
        IN  /\ SortedByDate(df)
            /\ \A i \in DOMAIN before :
                  /\ FilledInDateOrder(before, after, i, "pm25")
                  /\ FilledInDateOrder(before, after, i, "no2")

\* C7: the rows dropped after the fill are exactly those still missing pm25
\* or no2, and they are leading rows only; a row with both present is kept
\* whatever its other columns hold.
C7_DropsOnlyLeadingGap ==
    (pc = "loaded" /\ chainedInplace) =>
        LET after == Filled(raw, chainedInplace)
        IN  /\ df = AddPolicyStatus(dropna_tracked(after))
            /\ \A i, j \in DOMAIN after :
                  (i < j /\ (after[j].pm25 = <<>> \/ after[j].no2 = <<>>))
                      => (after[i].pm25 = <<>> \/ after[i].no2 = <<>>)

\* C8: with an empty During or Control sample (also for a phase that is not
\* configured) the analysis reports that there is not enough data and ends
\* normally, and the rank-sum test is called only with two non-empty samples.
C8_EmptySampleNoTest ==
    LET during_data  == Sample(df, "During", phase)
        control_data == Sample(df, "Control", phase)
    IN  /\ p_value # <<>> => (during_data # <<>> /\ control_data # <<>>)
        /\ (pc \in {"analysed", "done", "crashed"}
              /\ (during_data = <<>> \/ control_data = <<>>))
             => (verdict = "Not enough data" /\ p_value = <<>>)

C8_Witness ==
    /\ pc = "analysed"
    /\ Sample(df, "During", phase) # <<>>
    /\ Sample(df, "Control", phase) = <<>>
    /\ verdict = "Not enough data"

\* C9: when a comparison group of 'Phase 1' is empty the run of the main
\* block goes on past the "not enough data" outcome to its end, without a
\* fatal error.
C9_RunContinues ==
    (phase = "Phase 1" /\ verdict = "Not enough data") => pc # "crashed"

\* C10: with two non-empty samples the analysis reports "significant" exactly
\* when the p-value is below 0.05 (500/10000), "NOT significant" otherwise,
\* also at exactly 0.05, and it leaves the data frame as it was.
C10_VerdictByPValue ==
    [][pc = "loaded" =>
          /\ df' = df
          /\ p_value' # <<>> =>
                /\ verdict' \in {"significant", "NOT significant"}
                /\ verdict' = "significant" <=> p_value'[1] < 500]_vars

C10_Witness ==
    pc = "analysed" /\ p_value = <<500>> /\ verdict = "NOT significant"

====
